---- MODULE Spec2Model ----
(***************************************************************************)
(* A model of the Lily version-control engine (crates/xsu-lily): the patch *)
(* engine (patch.rs), the pack store (pack.rs), the stage (stage.rs) and   *)
(* the garden (garden.rs), as driven by the CLI (main.rs).                 *)
(*                                                                         *)
(* A text is a sequence of characters; a line break is the character NL.   *)
(* The specifications share the variables: SpecPatch runs the pure         *)
(* diff/apply functions on all small texts, Spec is one repository with    *)
(* its working tree, stage and commits, SpecStore is the metadata stores   *)
(* of two repositories with export, import and lookups. SpecRows, SpecInfo *)
(* and SpecSite are one repository with its info file and its static site, *)
(* SpecQuery is the list queries with a clock that gains a digit,          *)
(* SpecStage is the stage under add and clear, SpecGlob is add_glob on     *)
(* every small working tree. SpecCheckout is the checkout command next to  *)
(* branch creation, SpecProcs is two lily processes committing in one      *)
(* repository, step by step, SpecBase is commits made while the clock      *)
(* gains a digit, SpecCommit is the commit command with its clearing of    *)
(* the stage.                                                              *)
(***************************************************************************)
EXTENDS Integers, Sequences, FiniteSets, Bags, TLC

VARIABLES
    \* ---- SpecPatch: one diff/apply experiment
    pPc,        \* "start" -> "diffed" -> "applied"
    pOld,       \* the old text
    pNew,       \* the new text
    pPatch,     \* the PatchFile from_file produced for (pOld, pNew)
    pApplied,   \* the result of PatchFile::apply(pPatch, pOld)
    pSummary,   \* the result of PatchFile::summary(pPatch)
    pRows,      \* the rows Patch::render gives for pPatch, or its panic
    \* ---- the other specifications: the repositories on disk
    wt,         \* working tree: path -> entry (none / dir / file with content)
    meta,       \* .garden/stagefile and .garden/localfile, as their "\n"-pieces
    objects,    \* .garden/objects: pack id -> archive, the (path, content) entries
    tables,     \* per garden: do the tables "branches" and "commits" exist
    branches,   \* per garden: the rows of table "branches", a bag
    commits,    \* per garden: the rows of table "commits", a bag
    bin,        \* per garden: the export tree .garden/bin
    info,       \* .garden/info of garden 1: branch.default, branch.current, remote
    web,        \* .garden/web of garden 1: branch -> the rendered directory
    edits,      \* how many edits the working tree has had
    nextId,     \* number of random ids drawn so far
    epoch,      \* the reading of the system clock when the behaviour starts
    clock,      \* the last value read from the system clock
    proc,       \* per process of SpecProcs: where its commands are, and their locals
    last        \* what the last operation was given and returned (history)

patchVars == <<pPc, pOld, pNew, pPatch, pApplied, pSummary, pRows>>
siteVars == <<info, web, epoch>>
gardenVars == <<wt, meta, objects, tables, branches, commits, bin, info, web, nextId,
                epoch, clock, edits, proc, last>>
vars == <<pPc, pOld, pNew, pPatch, pApplied, pSummary, pRows,
          wt, meta, objects, tables, branches, commits, bin, info, web, nextId,
          epoch, clock, edits, proc, last>>

----------------------------------------------------------------------------
(* Bounds *)

\* longest text of a diff/apply experiment, in characters
MaxTextLen == 3
\* random ids drawn in one run (branch ids and commit ids)
MaxIds == 3
\* the readings of the system clock in one run: epoch and the MaxClock - 1
\* values after it
MaxClock == 2
\* most edits the user makes to the working tree
MaxEdits == 1

\* most paths the commands add and add_glob put on the stage
MaxStaged == 1
\* most rows a table grows to by deserialize
MaxRows == 3
\* most entries of the stage when Stage::add is called on its own
MaxStageLen == 4

----------------------------------------------------------------------------
(* Texts *)

NL == "\n"

\* the characters of the experiment texts
Alphabet == {"x", "y", NL}

RECURSIVE TextsOfLen(_)
TextsOfLen(n) ==
    IF n = 0 THEN {<<>>}
    ELSE {Append(t, c) : t \in TextsOfLen(n - 1), c \in Alphabet}

Texts == UNION {TextsOfLen(n) : n \in 0..MaxTextLen}

\* str::split("\n"): the pieces between line breaks, at least one piece
RECURSIVE SplitAcc(_, _, _, _)
SplitAcc(s, i, cur, out) ==
    IF i > Len(s) THEN Append(out, cur)
    ELSE IF s[i] = NL THEN SplitAcc(s, i + 1, <<>>, Append(out, cur))
    ELSE SplitAcc(s, i + 1, Append(cur, s[i]), out)

Split(s) == SplitAcc(s, 1, <<>>, <<>>)

\* [&str]::join("\n")
RECURSIVE Join(_)
Join(lines) ==
    IF lines = <<>> THEN <<>>
    ELSE IF Len(lines) = 1 THEN lines[1]
    ELSE lines[1] \o <<NL>> \o Join(Tail(lines))

\* similar's line tokens (TextDiff::from_lines): every token keeps its line
\* break, the last one has none when the text does not end with one, and the
\* empty text has no token
RECURSIVE LinesAcc(_, _, _, _)
LinesAcc(s, i, cur, out) ==
    IF i > Len(s) THEN (IF cur = <<>> THEN out ELSE Append(out, cur))
    ELSE IF s[i] = NL THEN LinesAcc(s, i + 1, <<>>, Append(out, Append(cur, NL)))
    ELSE LinesAcc(s, i + 1, Append(cur, s[i]), out)

Lines(s) == LinesAcc(s, 1, <<>>, <<>>)

\* Vec::insert(idx, x) and Vec::remove(idx), 0-based; the callers check the range
VecInsert(v, idx, x) == SubSeq(v, 1, idx) \o <<x>> \o SubSeq(v, idx + 1, Len(v))
VecRemove(v, idx) == SubSeq(v, 1, idx) \o SubSeq(v, idx + 2, Len(v))

----------------------------------------------------------------------------
(* Patch engine (patch.rs) *)

Added == "Added"
Deleted == "Deleted"

\* A Change is the tuple (line number, mode, line); a PatchFile is the tuple
\* (old content, changes).
PatchFile(old, changes) == <<old, changes>>

\* The alignments TextDiff::from_lines may compute for token lists a and b: the
\* sets of matched index pairs (0-based) that form a longest common
\* subsequence. Myers' algorithm returns a shortest edit script, that is one of
\* these; which one is the library's choice.
MatchPairs(a, b) ==
    {<<i, j>> \in (0..(Len(a) - 1)) \X (0..(Len(b) - 1)) : a[i + 1] = b[j + 1]}

IsChain(M) ==
    \A m \in M : \A n \in M : (m[1] < n[1] /\ m[2] < n[2]) \/ (n[1] < m[1] /\ n[2] < m[2]) \/ m = n

Alignments(a, b) ==
    LET chains == {M \in SUBSET MatchPairs(a, b) : IsChain(M)}
    IN {M \in chains : \A N \in chains : Cardinality(N) <= Cardinality(M)}

\* diff.iter_all_changes() without the Equal changes, each mapped as from_file
\* maps it: between two matches the Delete changes come first, each with its
\* old index, then the Insert changes, each with its new index
\* (old_index().unwrap_or(new_index())).
\* removed lines recorded one index late
DeleteChanges_late(a, lo, hi) == [k \in 1..(hi - lo) |-> <<lo + k, Deleted, a[lo + k]>>]

DeleteChanges(a, lo, hi) == [k \in 1..(hi - lo) |-> <<lo + k - 1, Deleted, a[lo + k]>>]
\* inserted lines recorded as deletions
InsertChanges_deleted(b, lo, hi) == [k \in 1..(hi - lo) |-> <<lo + k - 1, Deleted, b[lo + k]>>]

InsertChanges(b, lo, hi) == [k \in 1..(hi - lo) |-> <<lo + k - 1, Added, b[lo + k]>>]

RECURSIVE ChangesFrom(_, _, _, _, _)
ChangesFrom(a, b, M, i, j) ==
    IF \E m \in M : m[1] >= i
    THEN LET m == CHOOSE m \in M : m[1] >= i /\ \A n \in M : n[1] >= i => m[1] <= n[1]
         IN DeleteChanges(a, i, m[1]) \o InsertChanges(b, j, m[2])
                \o ChangesFrom(a, b, M, m[1] + 1, m[2] + 1)
    ELSE DeleteChanges(a, i, Len(a)) \o InsertChanges(b, j, Len(b))

\* Patch::from_file(path, old, new).files[path]: the PatchFiles the call may
\* return, one per alignment
from_file(old, new) ==
    LET a == Lines(old)
        b == Lines(new)
    IN {PatchFile(old, ChangesFrom(a, b, M, 0, 0)) : M \in Alignments(a, b)}

\* PatchFile::summary
RECURSIVE CountMode(_, _)
CountMode(changes, mode) ==
    IF changes = <<>> THEN 0
    ELSE (IF Head(changes)[2] = mode THEN 1 ELSE 0) + CountMode(Tail(changes), mode)

\* a summary that counts every change as an addition
summary_added(pf) == <<Len(pf[2]), Len(pf[2]), CountMode(pf[2], Deleted)>>

summary(pf) == <<Len(pf[2]), CountMode(pf[2], Added), CountMode(pf[2], Deleted)>>

\* the path the command fdiff gives Patch::from_file: "{first}+{second}"
FDiffPath == "first+second"

\* the Patch Patch::from_file(path, old, new) returns around its PatchFile:
\* files is a new map into which the PatchFile of path is inserted before the
\* changes are pushed
PatchOf(path, pf) == (path :> pf)

\* PatchFile::apply: the lines after replaying the changes in stored order, or
\* a panic (Vec::remove past the end)
Panicked == [ok |-> FALSE, val |-> <<>>]
Returned(v) == [ok |-> TRUE, val |-> v]

RECURSIVE ApplyChanges(_, _)
ApplyChanges(lines, changes) ==
    IF changes = <<>> THEN Returned(lines)
    ELSE LET patch == Head(changes)
         IN IF patch[2] = Added
            THEN IF patch[1] > Len(lines)
                 THEN ApplyChanges(Append(lines, patch[3]), Tail(changes))
                 ELSE ApplyChanges(VecInsert(lines, patch[1], patch[3]), Tail(changes))
            ELSE IF patch[1] >= Len(lines)
                 THEN Panicked
                 ELSE ApplyChanges(VecRemove(lines, patch[1]), Tail(changes))

apply(pf, source) ==
    LET r == ApplyChanges(Split(source), pf[2])
    IN IF r.ok THEN Returned(Join(r.val)) ELSE Panicked

\* Patch::render of one PatchFile, the loop over the pieces of the old
\* content: a row per piece, the deleted row when some Deleted change has the
\* piece's index and the normal row otherwise; each row ends with "\n", so
\* out.split("\n") gives the rows and one empty string. A row is the mark,
\* the line number shown and the text.
RenderBase(pf) ==
    LET pieces == Split(pf[1])
    IN [i \in 1..Len(pieces) |->
          IF \E k \in 1..Len(pf[2]) : pf[2][k][1] = i - 1 /\ pf[2][k][2] = Deleted
          THEN <<"-", i, pieces[i]>>
          ELSE <<".", i, pieces[i]>>] \o <<<<>>>>

\* Patch::render, the loop over the changes: a change that was not consumed is
\* inserted as an added row at its index + 1 (Vec::insert panics past the
\* end), with the line breaks taken out of its text
RECURSIVE InsertAdded(_, _, _)
InsertAdded(lines, changes, consumed) ==
    IF changes = <<>> THEN Returned(lines)
    ELSE LET change == Head(changes)
         IN IF change \in consumed THEN InsertAdded(lines, Tail(changes), consumed)
            ELSE IF change[1] + 1 > Len(lines) THEN Panicked
            ELSE InsertAdded(
                     VecInsert(lines, change[1] + 1,
                         <<"+", change[1] + 1, SelectSeq(change[3], LAMBDA ch : ch # NL)>>),
                     Tail(changes), consumed)

\* Patch::render of one PatchFile: consumed holds, for every piece with a
\* Deleted change at its index, the first such change
render(pf) ==
    LET changes == pf[2]
        hits(i) == {k \in 1..Len(changes) : changes[k][1] = i /\ changes[k][2] = Deleted}
        consumed == {changes[CHOOSE k \in hits(i) : \A m \in hits(i) : k <= m] :
                        i \in {i \in 0..(Len(Split(pf[1])) - 1) : hits(i) # {}}}
    IN InsertAdded(RenderBase(pf), changes, consumed)

----------------------------------------------------------------------------
(* Working tree and pack store (pack.rs) *)

\* the working-tree paths of the model: a file, a directory with a file in
\* it, and a directory whose name ends with a dot, with a file in it
TreePaths == {"a.txt", "dir", "dir/b.txt", "d.", "d./c.txt"}
ParentOf(p) == IF p = "dir/b.txt" THEN "dir" ELSE IF p = "d./c.txt" THEN "d." ELSE ""
ChildrenOf(d) == {q \in TreePaths : ParentOf(q) = d}

\* the contents a working-tree file takes: empty, and two lines
Contents == {<<>>, <<"x", NL, "y">>}
ContentsOf(p) ==
    IF p = "a.txt" THEN Contents ELSE IF p = "dir/b.txt" THEN {<<"x", NL, "y">>} ELSE {}

\* the paths the command add is given
StagedPaths == {"a.txt", "dir"}

NoEntry == [kind |-> "none", content |-> <<>>]
DirEntry == [kind |-> "dir", content |-> <<>>]
FileEntry(c) == [kind |-> "file", content |-> c]

\* fs::fstat / fs::read of a relative path in the working tree
fstat(tree, p) == IF p \in TreePaths THEN tree[p] ELSE NoEntry
read(tree, p) ==
    IF fstat(tree, p).kind = "file" THEN Returned(fstat(tree, p).content) ELSE Panicked

\* a finite set as a sequence, in some order (a directory listing)
RECURSIVE SetToSeq(_)
SetToSeq(S) ==
    IF S = {} THEN <<>>
    ELSE LET x == CHOOSE x \in S : TRUE IN <<x>> \o SetToSeq(S \ {x})

\* AppendEntries with a directory taken as one entry, nothing under it
AppendEntries_flat(tree, p) == <<<<p, tree[p].content>>>>

\* Builder::append_dir_all(dir, dir): an entry for the directory itself, then an
\* entry for every file under it; Builder::append_path(file): one entry
AppendEntries(tree, p) ==
    IF fstat(tree, p).kind = "dir"
    THEN <<<<p, <<>>>>>> \o
         LET kids == SetToSeq({q \in ChildrenOf(p) : tree[q].kind = "file"})
         IN [k \in 1..Len(kids) |-> <<kids[k], tree[kids[k]].content>>]
    ELSE <<<<p, tree[p].content>>>>

\* a Pack::new that writes an archive without entries
PackNew_empty(tree, files, archive) == Returned(archive)

\* Pack::new(files, hash): the archive written to objects/{hash}, entry after
\* entry; fstat(&file).unwrap() panics on a path that does not exist, and the
\* archive then holds the entries appended so far
RECURSIVE PackNew(_, _, _)
PackNew(tree, files, archive) ==
    IF files = <<>> THEN Returned(archive)
    ELSE IF Head(files) = "" THEN PackNew(tree, Tail(files), archive)
    ELSE IF fstat(tree, Head(files)).kind = "none" THEN [ok |-> FALSE, val |-> archive]
    ELSE PackNew(tree, Tail(files), archive \o AppendEntries(tree, Head(files)))

\* Pack::from_file: the archive read into a BTreeMap path -> content; a later
\* entry replaces an earlier one of the same path
RECURSIVE PackFromFile(_)
PackFromFile(archive) ==
    IF archive = <<>> THEN <<>>
    ELSE LET e == archive[Len(archive)]
             rest == PackFromFile(SubSeq(archive, 1, Len(archive) - 1))
         IN (e[1] :> e[2]) @@ rest

\* Pack::from_string / Pack::decode_vec (gzip of one string) and
\* serde_json::to_string / from_str
Gz(s) == <<"gz", s>>
UnGz(b) == b[2]
ToJson(v) == <<"json", v>>
FromJson(j) == j[2]

----------------------------------------------------------------------------
(* Stage and LocalStage (stage.rs), over the files of .garden *)

\* a file of .garden is held as the pieces str::split("\n") gives for it: the
\* empty file is the one empty piece
EmptyFile == <<"">>

\* fs::touch: the file, truncated to empty
touch(m, path) == [m EXCEPT ![path] = EmptyFile]

\* fs::append of a string given by its split("\n") pieces
append(m, path, pieces) ==
    LET old == m[path]
        n == Len(old)
    IN [m EXCEPT ![path] = SubSeq(old, 1, n - 1) \o <<old[n] \o pieces[1]>> \o Tail(pieces)]

\* Stage::get_files
get_files(m, path) == SelectSeq(m[path], LAMBDA slice : slice # "")

\* add with the line break left out
add_joined(m, path, file) == append(m, path, <<file>>)

\* Stage::add: fs::append(path, "\n{file}")
add(m, path, file) == append(m, path, <<"", file>>)

\* LocalStage: the same add / get_files shape as Stage, over its own path
LocalStage_get_files(m, path) == get_files(m, path)
LocalStage_add(m, path, id) == add(m, path, id)

\* Stage::clear
clear(m, path) == touch(m, path)

\* the lists of ignore globs add_glob is given: the empty one
GlobSets == {{}}
BuiltinGlobs == {".git/**/*", ".garden/**/*"}

\* the lists of ignore globs Stage::add_glob is given when it is called on its
\* own: none, the empty glob of an empty .weeds file, one file, everything
IgnoreLists == {{}, {""}, {"a.txt"}, {"**/*"}}

\* the files WalkDir finds under .garden and .git
GardenFiles == {".garden/stagefile", ".garden/objects/blank"}
GitFiles == {".git/config"}

\* a glob of the model against a path: a literal glob matches its own path
GlobMatches(glob, p) ==
    \/ glob = "**/*"
    \/ glob = ".garden/**/*" /\ p \in GardenFiles
    \/ glob = ".git/**/*" /\ p \in GitFiles
    \/ glob = p

\* the names of a path, between its separators
Components(p) ==
    CASE p = "dir/b.txt" -> <<"dir", "b.txt">>
      [] p = "d./c.txt" -> <<"d.", "c.txt">>
      [] p = ".garden/stagefile" -> <<".garden", "stagefile">>
      [] p = ".garden/objects/blank" -> <<".garden", "objects", "blank">>
      [] p = ".git/config" -> <<".git", "config">>
      [] OTHER -> <<p>>

\* the path WalkDir::new(".") gives for an entry: "./" and the relative path
WalkPath(p) == <<".">> \o Components(p)

\* the names of the model that end with a dot, and such a name without it
EndsWithDot(name) == name \in {".", "d."}
StripDot(name) == IF name = "." THEN "" ELSE "d"

\* str::replace("./", "") of a path given by its names: every name but the
\* last is followed by "/", and where the name ends with a dot that dot and
\* the "/" go
RECURSIVE ReplaceDotSlash(_)
ReplaceDotSlash(names) ==
    IF Len(names) = 1 THEN names[1]
    ELSE IF EndsWithDot(names[1]) THEN StripDot(names[1]) \o ReplaceDotSlash(Tail(names))
    ELSE names[1] \o "/" \o ReplaceDotSlash(Tail(names))

\* Stage::add_glob: every regular file of the walk whose path, with "./"
\* replaced by "", no glob matches, each as "\n{path}", appended after one
\* more "\n"
add_glob(m, tree, path, ignore_globs) ==
    LET globs == ignore_globs \cup BuiltinGlobs
        walked == {p \in TreePaths : tree[p].kind = "file"} \cup GardenFiles \cup GitFiles
        paths == {ReplaceDotSlash(WalkPath(p)) : p \in walked}
        out == SetToSeq({p \in paths : \A g \in globs : ~GlobMatches(g, p)})
    IN append(m, path, <<"", "">> \o out)

\* Garden::new: the two files a garden opens as its stage and its local list
StageFile == "stagefile"
LocalFile == "stagefile"

----------------------------------------------------------------------------
(* Metadata store (garden.rs over xsu-dataman): two tables per garden *)

\* garden 1 is the repository the commands run in; garden 2 is a second,
\* separate repository that receives an export of garden 1
Gardens == {1, 2}

Ok(v) == [ok |-> TRUE, val |-> v]
Err(e) == [ok |-> FALSE, err |-> e]

\* u128::to_string and str::parse::<u128>: a timestamp column holds text
RECURSIVE to_string(_)
to_string(n) == IF n < 10 THEN <<n>> ELSE to_string(n \div 10) \o <<n % 10>>

RECURSIVE ParseAcc(_, _)
ParseAcc(digits, acc) ==
    IF digits = <<>> THEN acc ELSE ParseAcc(Tail(digits), acc * 10 + Head(digits))

parse(digits) == ParseAcc(digits, 0)

\* the order of two TEXT values (SQLite's BINARY collation): byte by byte, a
\* proper prefix first
RECURSIVE TextLess(_, _)
TextLess(a, b) ==
    IF b = <<>> THEN FALSE
    ELSE IF a = <<>> THEN TRUE
    ELSE IF Head(a) # Head(b) THEN Head(a) < Head(b)
    ELSE TextLess(Tail(a), Tail(b))

\* the rows of a bag, one element per copy
Instances(B) == UNION {{<<r, k>> : k \in 1..CopiesIn(r, B)} : r \in BagToSet(B)}

\* an INSERT that replaces the rows of the table
Insert_replace(B, row) == SetToBag({row})

\* INSERT INTO: one more row; no statement of the store updates or deletes one
Insert(B, row) == B (+) SetToBag({row})

\* ORDER BY "timestamp" DESC: the orders the statement may return the rows
\* in; rows of equal timestamp come in any order
RECURSIVE OrderDesc(_)
OrderDesc(I) ==
    IF I = {} THEN {<<>>}
    ELSE UNION {{<<i[1]>> \o rest : rest \in OrderDesc(I \ {i})} :
                  i \in {i \in I : \A j \in I : ~TextLess(i[1].timestamp, j[1].timestamp)}}

\* a row of "branches" as the struct Branch, and back
BranchOf(row) == [id |-> row.id, name |-> row.name, timestamp |-> parse(row.timestamp)]
BranchRow(id, name, timestamp) ==
    [id |-> id, name |-> name, timestamp |-> to_string(timestamp)]

\* a row of "commits" as the struct Commit, and back: the content column is
\* the gzip of the Patch's JSON
CommitOf(row) ==
    [id |-> row.id, branch |-> row.branch, timestamp |-> parse(row.timestamp),
     author |-> row.author, message |-> row.message,
     content |-> FromJson(UnGz(row.content))]
CommitRow(id, branch, timestamp, author, message, patch) ==
    [id |-> id, branch |-> branch, timestamp |-> to_string(timestamp),
     author |-> author, message |-> message, content |-> Gz(ToJson(patch))]

\* str::to_lowercase on the keys of the model
to_lowercase(s) == IF s = "ID1" THEN "id1" ELSE s

\* Each query below is the set of results the call may return.

\* Garden::get_branch
get_branch(g, id) ==
    LET found == {r \in BagToSet(branches[g]) : r.id = id}
    IN IF ~tables[g] \/ found = {} THEN {Err("Other")}
       ELSE {Ok(BranchOf(r)) : r \in found}

\* a lookup by name that never finds a row
get_branch_by_name_none(g, name) == {Err("Other")}

\* Garden::get_branch_by_name
get_branch_by_name(g, name) ==
    LET found == {r \in BagToSet(branches[g]) : r.name = name}
    IN IF ~tables[g] \/ found = {} THEN {Err("Other")}
       ELSE {Ok(BranchOf(r)) : r \in found}

\* Garden::get_all_branches
get_all_branches(g) ==
    IF ~tables[g] THEN {Err("Other")}
    ELSE {Ok([k \in 1..Len(q) |-> BranchOf(q[k])]) : q \in OrderDesc(Instances(branches[g]))}

\* Garden::get_commit
get_commit(g, id) ==
    LET found == {r \in BagToSet(commits[g]) : r.id = to_lowercase(id)}
    IN IF ~tables[g] \/ found = {} THEN {Err("Other")}
       ELSE {Ok(CommitOf(r)) : r \in found}

\* Garden::get_latest_commit
get_latest_commit(g) ==
    IF ~tables[g] \/ commits[g] = EmptyBag THEN {Err("Other")}
    ELSE {Ok(CommitOf(q[1])) : q \in OrderDesc(Instances(commits[g]))}

\* Garden::get_all_commits
get_all_commits(g, branch) ==
    IF ~tables[g] THEN {Err("Other")}
    ELSE {Ok([k \in 1..Len(q) |-> CommitOf(q[k])]) :
            q \in OrderDesc({i \in Instances(commits[g]) : i[1].branch = branch})}

\* utility::random_id: an id no earlier call returned
random_id == "id" \o ToString(nextId + 1)

\* utility::unix_epoch_timestamp: the readings the clock may give next
Now == {t \in {clock, clock + 1} : t < epoch + MaxClock}

----------------------------------------------------------------------------
(* History: what the last operation was given and what it returned *)

Panic == [ok |-> FALSE, err |-> "panic"]

\* the processes that run the commands of SpecProcs, and one that has not started
Procs == {1, 2}
Idle == [pc |-> "idle", files |-> <<>>, patch |-> <<>>, id |-> "", cleared |-> {}]

NoCall == [op |-> "none", g |-> 0, arg |-> "", ret |-> Ok(""), before |-> <<>>,
           only_init |-> TRUE]

Call(op, g, arg, ret, before) ==
    [op |-> op, g |-> g, arg |-> arg, ret |-> ret, before |-> before,
     only_init |-> op = "init" /\ last.only_init /\ last.g \in {0, g}]

----------------------------------------------------------------------------
(* Garden (garden.rs) *)

\* the branch names, authors and messages the commands are given
BranchNames == {"main", "dev"}
Author == "user@host"
Message == "message"

\* the export tree .garden/bin: absent, and just made. The field of keeps the
\* rows the store had when serialize wrote the tree.
NoBin == [exists |-> FALSE, exported |-> FALSE, branches |-> <<>>,
          of |-> [b |-> EmptyBag, c |-> EmptyBag]]
EmptyBin == [NoBin EXCEPT !.exists = TRUE]

\* GardenInfo::default, the info file Garden::new writes
DefaultInfo == [branch |-> [default |-> "main", current |-> "main"], remote |-> ""]

\* .garden/web before the first render: it does not exist
NoWeb == [exists |-> FALSE, branch |-> <<>>]

\* Garden::new in a directory that holds the file a.txt and no .garden: the
\* blank pack, the stagefile and the localfile, all empty; no table and no
\* export tree yet
Init ==
    /\ pPc = "off" /\ pOld = <<>> /\ pNew = <<>> /\ pPatch = <<<<>>, <<>>>>
    /\ pApplied = Panicked /\ pSummary = <<0, 0, 0>> /\ pRows = Panicked
    /\ wt = [p \in TreePaths |-> IF p = "a.txt" THEN FileEntry(<<"x", NL, "y">>) ELSE NoEntry]
    /\ edits = 0
    /\ meta = [f \in {"stagefile", "localfile"} |-> EmptyFile]
    /\ objects = ("blank" :> <<>>)
    /\ tables = [g \in Gardens |-> FALSE]
    /\ branches = [g \in Gardens |-> EmptyBag]
    /\ commits = [g \in Gardens |-> EmptyBag]
    /\ bin = [g \in Gardens |-> NoBin]
    /\ info = DefaultInfo
    /\ web = NoWeb
    /\ nextId = 0
    /\ epoch = 1
    /\ clock = epoch
    /\ proc = [p \in Procs |-> Idle]
    /\ last = NoCall

\* Garden::create_branch: the row it inserts
create_branch(g, name, id, timestamp) == Insert(branches[g], BranchRow(id, name, timestamp))

\* Garden::create_branch as an operation of garden 1
CreateBranch(name) ==
    /\ nextId < MaxIds
    /\ nextId' = nextId + 1
    /\ IF tables[1]
       THEN \E t \in Now :
              /\ branches' = [branches EXCEPT ![1] = create_branch(1, name, random_id, t)]
              /\ clock' = t
              /\ last' = Call("create_branch", 1, name, Ok(random_id), <<>>)
       ELSE /\ last' = Call("create_branch", 1, name, Err("Other"), <<>>)
            /\ UNCHANGED <<branches, clock>>
    /\ UNCHANGED <<wt, meta, objects, tables, commits, bin, edits>>
    /\ UNCHANGED <<patchVars, siteVars, proc>>

\* Garden::init: both tables are created if they do not exist, the stagefile is
\* created if it cannot be read, and a branch main is created
InitGarden(g) ==
    /\ nextId < MaxIds
    /\ nextId' = nextId + 1
    /\ tables' = [tables EXCEPT ![g] = TRUE]
    /\ \E t \in Now :
          /\ branches' = [branches EXCEPT ![g] = create_branch(g, "main", random_id, t)]
          /\ clock' = t
    /\ last' = Call("init", g, "", Ok(""), <<>>)
    /\ UNCHANGED <<wt, meta, objects, commits, bin, edits>>
    /\ UNCHANGED <<patchVars, siteVars, proc>>

\* Commit::get_object: the commit's pack, or the blank pack when there is none
get_object(id) == IF id \in DOMAIN objects THEN objects[id] ELSE objects["blank"]

\* Commit::default: its id and branch are fresh random ids
DefaultCommit ==
    [id |-> "filler-id", branch |-> "filler-branch", timestamp |-> clock,
     author |-> "system@localhost", message |-> "Filler commit", content |-> <<>>]

\* StagedPatches with the loop over the staged files left out
StagedPatches_none(tree, latest_pack, files, patch) == {patch}

\* create_commit, the loop over the staged files: the patches it may build.
\* A file whose diff has no change is left out.
RECURSIVE StagedPatches(_, _, _, _)
StagedPatches(tree, latest_pack, files, patch) ==
    IF files = <<>> THEN {patch}
    ELSE LET file == Head(files)
             previous == IF file \in DOMAIN latest_pack THEN latest_pack[file] ELSE <<>>
             current == IF read(tree, file).ok THEN read(tree, file).val ELSE <<>>
         IN IF file = "" THEN StagedPatches(tree, latest_pack, Tail(files), patch)
            ELSE UNION {StagedPatches(tree, latest_pack, Tail(files),
                            IF Len(pf[2]) = 0 THEN patch ELSE (file :> pf) @@ patch) :
                        pf \in from_file(previous, current)}

\* DeletedPatches with the loop over the previous pack left out
DeletedPatches_none(latest_pack, file_names, patch) == patch

\* create_commit, the loop over the previous pack: every path of it that is
\* not staged gets the diff of its content against the empty text (the one
\* PatchFile from_file returns for it)
DeletedPatches(latest_pack, file_names, patch) ==
    LET gone == {p \in DOMAIN latest_pack : p \notin file_names}
    IN [p \in gone |-> CHOOSE pf \in from_file(latest_pack[p], <<>>) : TRUE] @@ patch

Range(q) == {q[k] : k \in 1..Len(q)}

\* Garden::create_commit in garden 1. The id is appended to the local list
\* before the pack is written; Pack::new panics on a staged path that is not
\* on disk; the row is inserted last.
CreateCommit(branch) ==
    /\ nextId < MaxIds
    /\ Len(get_files(meta, StageFile)) <= MaxStaged
    /\ LET files == get_files(meta, StageFile)
       IN \E found \in get_latest_commit(1) :
          LET latest_commit == IF found.ok THEN found.val ELSE DefaultCommit
              latest_pack == PackFromFile(get_object(latest_commit.id))
          IN \E staged \in StagedPatches(wt, latest_pack, files, <<>>) :
             LET patch == DeletedPatches(latest_pack, Range(files), staged)
                 id == random_id
                 packed == PackNew(wt, files, <<>>)
                 given == [stage |-> files, local |-> LocalStage_get_files(meta, LocalFile),
                           base |-> latest_pack, latest |-> found,
                           blank |-> latest_commit.id \notin DOMAIN objects]
             IN /\ nextId' = nextId + 1
                /\ meta' = LocalStage_add(meta, LocalFile, id)
                /\ objects' = (id :> packed.val) @@ objects
                /\ IF ~packed.ok
                   THEN /\ last' = Call("create_commit", 1, branch, Panic, given)
                        /\ UNCHANGED <<commits, clock>>
                   ELSE IF ~tables[1]
                   THEN /\ last' = Call("create_commit", 1, branch, Err("Other"), given)
                        /\ UNCHANGED <<commits, clock>>
                   ELSE \E t \in Now :
                          /\ commits' = [commits EXCEPT ![1] =
                                Insert(@, CommitRow(id, branch, t, Author, Message, patch))]
                          /\ clock' = t
                          /\ last' = Call("create_commit", 1, branch, Ok(id), given)
    /\ UNCHANGED <<wt, tables, branches, bin, edits>>
    /\ UNCHANGED <<patchVars, siteVars, proc>>

\* the command commit: create_commit as above and, when it returned Ok,
\* Stage::clear; a panic ends the command where it is
Commit(branch) ==
    /\ nextId < MaxIds
    /\ Len(get_files(meta, StageFile)) <= MaxStaged
    /\ LET files == get_files(meta, StageFile)
       IN \E found \in get_latest_commit(1) :
          LET latest_commit == IF found.ok THEN found.val ELSE DefaultCommit
              latest_pack == PackFromFile(get_object(latest_commit.id))
          IN \E staged \in StagedPatches(wt, latest_pack, files, <<>>) :
             LET patch == DeletedPatches(latest_pack, Range(files), staged)
                 id == random_id
                 packed == PackNew(wt, files, <<>>)
                 given == [stage |-> files, local |-> LocalStage_get_files(meta, LocalFile),
                           base |-> latest_pack, latest |-> found,
                           blank |-> latest_commit.id \notin DOMAIN objects]
             IN /\ nextId' = nextId + 1
                /\ objects' = (id :> packed.val) @@ objects
                /\ IF ~packed.ok
                   THEN /\ meta' = LocalStage_add(meta, LocalFile, id)
                        /\ last' = Call("commit", 1, branch, Panic, given)
                        /\ UNCHANGED <<commits, clock>>
                   ELSE IF ~tables[1]
                   THEN /\ meta' = LocalStage_add(meta, LocalFile, id)
                        /\ last' = Call("commit", 1, branch, Err("Other"), given)
                        /\ UNCHANGED <<commits, clock>>
                   ELSE \E t \in Now :
                          /\ commits' = [commits EXCEPT ![1] =
                                Insert(@, CommitRow(id, branch, t, Author, Message, patch))]
                          /\ clock' = t
                          /\ meta' = clear(LocalStage_add(meta, LocalFile, id), StageFile)
                          /\ last' = Call("commit", 1, branch, Ok(id), given)
    /\ UNCHANGED <<wt, tables, branches, bin, edits>>
    /\ UNCHANGED <<patchVars, siteVars, proc>>

\* Garden::serialize, the loop over the branches in the order get_all_branches
\* gave them: each branch writes its directory branches/{name}, one file per
\* commit of that name and then branch.json, over whatever is there already
RECURSIVE SerializeBranches(_, _, _)
SerializeBranches(g, bs, dirs) ==
    IF bs = <<>> THEN dirs
    ELSE LET branch == Head(bs)
             found == CHOOSE r \in get_all_commits(g, branch.name) : TRUE
             files == [id \in {c.id : c \in Range(found.val)} |->
                         Gz(ToJson(CHOOSE c \in Range(found.val) : c.id = id))]
             old == IF branch.name \in DOMAIN dirs THEN dirs[branch.name].commits ELSE <<>>
             dir == [branch_json |-> ToJson(branch), commits |-> files @@ old]
         IN SerializeBranches(g, Tail(bs), (branch.name :> dir) @@ dirs)

\* Garden::serialize: rmdirr(.garden/bin).unwrap() panics when the directory
\* does not exist; get_all_branches().unwrap() panics without tables, after
\* the directory was cleared
Serialize(g) ==
    /\ IF ~bin[g].exists
       THEN /\ last' = Call("serialize", g, "", Panic, <<>>)
            /\ UNCHANGED bin
       ELSE \E found \in get_all_branches(g) :
              IF ~found.ok
              THEN /\ bin' = [bin EXCEPT ![g] = EmptyBin]
                   /\ last' = Call("serialize", g, "", Panic, <<>>)
              ELSE /\ bin' = [bin EXCEPT ![g] =
                        [exists |-> TRUE, exported |-> TRUE,
                         branches |-> SerializeBranches(g, found.val, <<>>),
                         of |-> [b |-> branches[g], c |-> commits[g]]]]
                   /\ last' = Call("serialize", g, "", Ok(""), <<>>)
    /\ UNCHANGED <<wt, meta, objects, tables, branches, commits, nextId, clock, edits>>
    /\ UNCHANGED <<patchVars, siteVars, proc>>

\* the orders a directory listing may come in
RECURSIVE Orders(_)
Orders(S) ==
    IF S = {} THEN {<<>>}
    ELSE UNION {{<<x>> \o rest : rest \in Orders(S \ {x})} : x \in S}

\* Garden::deserialize, the inner loop: one row per commit file
RECURSIVE InsertCommits(_, _)
InsertCommits(rows, files) ==
    IF DOMAIN files = {} THEN rows
    ELSE LET name == CHOOSE n \in DOMAIN files : TRUE
             commit_data == FromJson(UnGz(files[name]))
             row == CommitRow(commit_data.id, commit_data.branch, commit_data.timestamp,
                              commit_data.author, commit_data.message, commit_data.content)
         IN InsertCommits(Insert(rows, row), [n \in DOMAIN files \ {name} |-> files[n]])

\* Garden::deserialize(path), the loop over the listing of {path}/branches:
\* the branch row comes from {path}/branches/{name}/branch.json, the commits
\* from the garden's own .garden/bin/branches/{name}/commits. An insert into
\* a table that does not exist and a directory that cannot be read panic.
RECURSIVE DeserializeBranches(_, _, _, _)
DeserializeBranches(g, path, names, db) ==
    IF names = <<>> THEN db
    ELSE LET name == Head(names)
             branch_data == FromJson(path.branches[name].branch_json)
             b == Insert(db.b, BranchRow(branch_data.id, branch_data.name,
                                         branch_data.timestamp))
         IN IF ~tables[g] THEN [db EXCEPT !.ok = FALSE]
            ELSE IF ~bin[g].exists \/ name \notin DOMAIN bin[g].branches
            THEN [db EXCEPT !.ok = FALSE, !.b = b]
            ELSE DeserializeBranches(g, path, Tail(names),
                    [db EXCEPT !.b = b,
                               !.c = InsertCommits(db.c, bin[g].branches[name].commits)])

\* Garden::deserialize of garden g, given the export tree of garden src
Deserialize(g, src) ==
    /\ LET before == [b |-> branches[g], c |-> commits[g], own |-> (src = g)]
       IN IF ~bin[src].exists
          THEN /\ last' = Call("deserialize", g, "", Panic, before)
               /\ UNCHANGED <<branches, commits>>
          ELSE \E names \in Orders(DOMAIN bin[src].branches) :
                 LET db == DeserializeBranches(g, bin[src], names,
                              [ok |-> TRUE, b |-> branches[g], c |-> commits[g]])
                 IN /\ BagCardinality(db.b) <= MaxRows
                    /\ BagCardinality(db.c) <= MaxRows
                    /\ branches' = [branches EXCEPT ![g] = db.b]
                    /\ commits' = [commits EXCEPT ![g] = db.c]
                    /\ last' = Call("deserialize", g, "",
                                    IF db.ok THEN Ok("") ELSE Panic, before)
    /\ UNCHANGED <<wt, meta, objects, tables, bin, nextId, clock, edits>>
    /\ UNCHANGED <<patchVars, siteVars, proc>>

\* the lookups of garden 1, each with the keys the model asks for
LookupKeys == {"id1", "ID1", "main"}

GetBranch(id) ==
    /\ \E ret \in get_branch(1, id) : last' = Call("get_branch", 1, id, ret, <<>>)
    /\ UNCHANGED <<wt, meta, objects, tables, branches, commits, bin, nextId, clock, edits>>
    /\ UNCHANGED <<patchVars, siteVars, proc>>

GetBranchByName(name) ==
    /\ \E ret \in get_branch_by_name(1, name) :
          last' = Call("get_branch_by_name", 1, name, ret, <<>>)
    /\ UNCHANGED <<wt, meta, objects, tables, branches, commits, bin, nextId, clock, edits>>
    /\ UNCHANGED <<patchVars, siteVars, proc>>

GetCommit(id) ==
    /\ \E ret \in get_commit(1, id) : last' = Call("get_commit", 1, id, ret, <<>>)
    /\ UNCHANGED <<wt, meta, objects, tables, branches, commits, bin, nextId, clock, edits>>
    /\ UNCHANGED <<patchVars, siteVars, proc>>

\* the queries of garden 1 that return rows in order
GetAllBranches ==
    /\ \E ret \in get_all_branches(1) : last' = Call("get_all_branches", 1, "", ret, <<>>)
    /\ UNCHANGED <<wt, meta, objects, tables, branches, commits, bin, nextId, clock, edits>>
    /\ UNCHANGED <<patchVars, siteVars, proc>>

GetAllCommits(branch) ==
    /\ \E ret \in get_all_commits(1, branch) :
          last' = Call("get_all_commits", 1, branch, ret, <<>>)
    /\ UNCHANGED <<wt, meta, objects, tables, branches, commits, bin, nextId, clock, edits>>
    /\ UNCHANGED <<patchVars, siteVars, proc>>

GetLatestCommit ==
    /\ \E ret \in get_latest_commit(1) : last' = Call("get_latest_commit", 1, "", ret, <<>>)
    /\ UNCHANGED <<wt, meta, objects, tables, branches, commits, bin, nextId, clock, edits>>
    /\ UNCHANGED <<patchVars, siteVars, proc>>

----------------------------------------------------------------------------
(* The info file and the static site (garden.rs: set_branch, set_remote, render) *)

\* the remote the command remote is given
Remotes == {"https://host/garden"}

\* what a frame condition compares against: the info, the tables and the
\* two lists as they were when the operation was called
Snapshot ==
    [info |-> info, b |-> branches[1], c |-> commits[1],
     stage |-> get_files(meta, StageFile), local |-> LocalStage_get_files(meta, LocalFile)]

\* set_branch with the default branch moved along with the current one
set_branch_both(i, name) == [i EXCEPT !.branch.current = name, !.branch.default = name]

\* Garden::set_branch and Garden::set_remote: the info they write to .garden/info
set_branch(i, name) == [i EXCEPT !.branch.current = name]
set_remote(i, url) == [i EXCEPT !.remote = url]

SetBranch(name) ==
    /\ info' = set_branch(info, name)
    /\ last' = Call("set_branch", 1, name, Ok(""), Snapshot)
    /\ UNCHANGED <<wt, meta, objects, tables, branches, commits, bin, web, nextId, epoch,
                   clock, edits>>
    /\ UNCHANGED <<patchVars, proc>>

\* the command checkout: create_branch(name).unwrap() when get_branch_by_name
\* returned an error, then set_branch(name)
Checkout(name) ==
    /\ \E found \in get_branch_by_name(1, name) :
          IF found.ok
          THEN /\ info' = set_branch(info, name)
               /\ last' = Call("checkout", 1, name, Ok(""), Snapshot)
               /\ UNCHANGED <<branches, clock, nextId>>
          ELSE /\ nextId < MaxIds
               /\ nextId' = nextId + 1
               /\ IF tables[1]
                  THEN \E t \in Now :
                         /\ branches' = [branches EXCEPT ![1] = create_branch(1, name, random_id, t)]
                         /\ clock' = t
                         /\ info' = set_branch(info, name)
                         /\ last' = Call("checkout", 1, name, Ok(""), Snapshot)
                  ELSE /\ last' = Call("checkout", 1, name, Panic, Snapshot)
                       /\ UNCHANGED <<branches, clock, info>>
    /\ UNCHANGED <<wt, meta, objects, tables, commits, bin, web, epoch, edits>>
    /\ UNCHANGED <<patchVars, proc>>

SetRemote(url) ==
    /\ info' = set_remote(info, url)
    /\ last' = Call("set_remote", 1, url, Ok(""), Snapshot)
    /\ UNCHANGED <<wt, meta, objects, tables, branches, commits, bin, web, nextId, epoch,
                   clock, edits>>
    /\ UNCHANGED <<patchVars, proc>>

\* .garden/web/{branch} as mkdir leaves it, with its empty directory commits
EmptyWeb == [done |-> FALSE, index |-> <<>>, tree |-> <<>>]

\* Garden::render, the loop over the commits in the order get_all_commits gave
\* them: one index entry per commit, and per commit a tree page that lists
\* the files of the pack Commit::get_object opened
RenderCommits(cs) ==
    [done |-> TRUE,
     index |-> [k \in 1..Len(cs) |-> cs[k].id],
     tree |-> [id \in {c.id : c \in Range(cs)} |-> DOMAIN PackFromFile(get_object(id))]]

\* Garden::render: mkdir(.garden/web), then rmdirr(.garden/web/{branch}).unwrap()
\* panics when that directory does not exist; get_all_commits().unwrap()
\* panics without tables, after the directory was cleared and made again
Render(branch) ==
    /\ IF branch \notin DOMAIN web.branch
       THEN /\ web' = [web EXCEPT !.exists = TRUE]
            /\ last' = Call("render", 1, branch, Panic, <<>>)
       ELSE \E found \in get_all_commits(1, branch) :
              IF ~found.ok
              THEN /\ web' = [web EXCEPT !.branch = (branch :> EmptyWeb) @@ @]
                   /\ last' = Call("render", 1, branch, Panic, <<>>)
              ELSE /\ web' = [web EXCEPT !.branch = (branch :> RenderCommits(found.val)) @@ @]
                   /\ last' = Call("render", 1, branch, Ok(""), <<>>)
    /\ UNCHANGED <<wt, meta, objects, tables, branches, commits, bin, info, nextId, epoch,
                   clock, edits>>
    /\ UNCHANGED <<patchVars, proc>>

----------------------------------------------------------------------------
(* Two processes on one repository: each runs the command add with its own
   path and then the command commit, statement by statement. A step is one
   write to the repository, or the reads before the first write. *)

\* the path a process stages
PathOf(p) == IF p = 1 THEN "a.txt" ELSE "dir/b.txt"

\* the command add: Stage::add
ProcAdd(p) ==
    /\ proc[p].pc = "idle"
    /\ meta' = add(meta, StageFile, PathOf(p))
    /\ proc' = [proc EXCEPT ![p].pc = "added"]
    /\ last' = Call("process", 1, "", Ok(""), <<>>)
    /\ UNCHANGED <<wt, objects, tables, branches, commits, bin, nextId, clock, edits>>
    /\ UNCHANGED <<patchVars, siteVars>>

\* create_commit up to its first write: the stage is read into files, the
\* latest commit and its pack are read, the patch is built
ProcDiff(p) ==
    /\ proc[p].pc = "added"
    /\ LET files == get_files(meta, StageFile)
       IN \E found \in get_latest_commit(1) :
          LET latest_commit == IF found.ok THEN found.val ELSE DefaultCommit
              latest_pack == PackFromFile(get_object(latest_commit.id))
          IN \E staged \in StagedPatches(wt, latest_pack, files, <<>>) :
                proc' = [proc EXCEPT ![p].pc = "diffed", ![p].files = files,
                            ![p].patch = DeletedPatches(latest_pack, Range(files), staged)]
    /\ last' = Call("process", 1, "", Ok(""), <<>>)
    /\ UNCHANGED <<wt, meta, objects, tables, branches, commits, bin, nextId, clock, edits>>
    /\ UNCHANGED <<patchVars, siteVars>>

\* create_commit: the id is drawn and appended to the local list
ProcLocalAdd(p) ==
    /\ proc[p].pc = "diffed"
    /\ nextId < MaxIds
    /\ nextId' = nextId + 1
    /\ meta' = LocalStage_add(meta, LocalFile, random_id)
    /\ proc' = [proc EXCEPT ![p].pc = "listed", ![p].id = random_id]
    /\ last' = Call("process", 1, "", Ok(""), <<>>)
    /\ UNCHANGED <<wt, objects, tables, branches, commits, bin, clock, edits>>
    /\ UNCHANGED <<patchVars, siteVars>>

\* create_commit: Pack::new writes the pack of the files read at the start
ProcPack(p) ==
    /\ proc[p].pc = "listed"
    /\ LET packed == PackNew(wt, proc[p].files, <<>>)
       IN /\ objects' = (proc[p].id :> packed.val) @@ objects
          /\ proc' = [proc EXCEPT ![p].pc = IF packed.ok THEN "packed" ELSE "panicked"]
    /\ last' = Call("process", 1, "", Ok(""), <<>>)
    /\ UNCHANGED <<wt, meta, tables, branches, commits, bin, nextId, clock, edits>>
    /\ UNCHANGED <<patchVars, siteVars>>

\* create_commit: the INSERT of the commit row; it fails without the table
ProcInsert(p) ==
    /\ proc[p].pc = "packed"
    /\ IF tables[1]
       THEN \E t \in Now :
              /\ commits' = [commits EXCEPT ![1] =
                    Insert(@, CommitRow(proc[p].id, "main", t, Author, Message, proc[p].patch))]
              /\ clock' = t
              /\ proc' = [proc EXCEPT ![p].pc = "inserted"]
       ELSE /\ proc' = [proc EXCEPT ![p].pc = "failed"]
            /\ UNCHANGED <<commits, clock>>
    /\ last' = Call("process", 1, "", Ok(""), <<>>)
    /\ UNCHANGED <<wt, meta, objects, tables, branches, bin, nextId, edits>>
    /\ UNCHANGED <<patchVars, siteVars>>

\* the command commit after create_commit returned Ok: Stage::clear; cleared
\* keeps what the stage held
ProcClear(p) ==
    /\ proc[p].pc = "inserted"
    /\ meta' = clear(meta, StageFile)
    /\ proc' = [proc EXCEPT ![p].pc = "done", ![p].cleared = Range(get_files(meta, StageFile))]
    /\ last' = Call("process", 1, "", Ok(""), <<>>)
    /\ UNCHANGED <<wt, objects, tables, branches, commits, bin, nextId, clock, edits>>
    /\ UNCHANGED <<patchVars, siteVars>>

\* the process is killed between two steps of create_commit
Interrupt(p) ==
    /\ proc[p].pc \in {"diffed", "listed", "packed"}
    /\ proc' = [proc EXCEPT ![p].pc = "interrupted"]
    /\ last' = Call("process", 1, "", Ok(""), <<>>)
    /\ UNCHANGED <<wt, meta, objects, tables, branches, commits, bin, nextId, clock, edits>>
    /\ UNCHANGED <<patchVars, siteVars>>

----------------------------------------------------------------------------
(* The commands on the stage (main.rs: add, clear) *)

\* the command add with one path
StageAdd(file) ==
    /\ Len(get_files(meta, StageFile)) < MaxStaged
    /\ meta' = add(meta, StageFile, file)
    /\ last' = Call("stage", 1, "", Ok(""), <<>>)
    /\ UNCHANGED <<wt, objects, tables, branches, commits, bin, nextId, clock, edits>>
    /\ UNCHANGED <<patchVars, siteVars, proc>>

\* the command add with ".", on a stage that is clear
StageAddGlob(ignore_globs) ==
    /\ meta' = add_glob(meta, wt, StageFile, ignore_globs)
    /\ meta[StageFile] = EmptyFile
    /\ Len(get_files(meta', StageFile)) <= MaxStaged
    /\ last' = Call("stage", 1, "", Ok(""), <<>>)
    /\ UNCHANGED <<wt, objects, tables, branches, commits, bin, nextId, clock, edits>>
    /\ UNCHANGED <<patchVars, siteVars, proc>>

\* the command clear
StageClear ==
    /\ meta' = clear(meta, StageFile)
    /\ last' = Call("stage", 1, "", Ok(""), <<>>)
    /\ UNCHANGED <<wt, objects, tables, branches, commits, bin, nextId, clock, edits>>
    /\ UNCHANGED <<patchVars, siteVars, proc>>

\* Stage::add and Stage::clear called on their own, on a stage of at most
\* MaxStageLen entries
Add(file) ==
    /\ Len(get_files(meta, StageFile)) < MaxStageLen
    /\ meta' = add(meta, StageFile, file)
    /\ last' = Call("add", 1, file, Ok(""), [stage |-> get_files(meta, StageFile)])
    /\ UNCHANGED <<wt, objects, tables, branches, commits, bin, nextId, clock, edits>>
    /\ UNCHANGED <<patchVars, siteVars, proc>>

\* Stage::add_glob called on its own, on a stage that is clear
AddGlob(ignore_globs) ==
    /\ meta[StageFile] = EmptyFile
    /\ meta' = add_glob(meta, wt, StageFile, ignore_globs)
    /\ last' = Call("add_glob", 1, ignore_globs, Ok(""), <<>>)
    /\ UNCHANGED <<wt, objects, tables, branches, commits, bin, nextId, clock, edits>>
    /\ UNCHANGED <<patchVars, siteVars, proc>>

Clear ==
    /\ meta' = clear(meta, StageFile)
    /\ last' = Call("clear", 1, "", Ok(""), [stage |-> get_files(meta, StageFile)])
    /\ UNCHANGED <<wt, objects, tables, branches, commits, bin, nextId, clock, edits>>
    /\ UNCHANGED <<patchVars, siteVars, proc>>

----------------------------------------------------------------------------
(* The environment: the user's edits of the working tree and of .garden *)

\* a file is written (its directory is made first)
WriteFile(p, c) ==
    /\ edits < MaxEdits
    /\ c \in ContentsOf(p)
    /\ wt[p] # FileEntry(c)
    /\ wt' = [q \in TreePaths |->
                IF q = p THEN FileEntry(c)
                ELSE IF q = ParentOf(p) THEN DirEntry
                ELSE wt[q]]
    /\ last' = Call("edit", 0, "", Ok(""), <<>>)
    /\ edits' = edits + 1
    /\ UNCHANGED <<meta, objects, tables, branches, commits, bin, nextId, clock>>
    /\ UNCHANGED <<patchVars, siteVars, proc>>

\* a file is removed, or a directory with what is in it
RemovePath(p) ==
    /\ edits < MaxEdits
    /\ p \in {"a.txt", "dir"}
    /\ wt[p].kind # "none"
    /\ wt' = [q \in TreePaths |-> IF q = p \/ ParentOf(q) = p THEN NoEntry ELSE wt[q]]
    /\ last' = Call("edit", 0, "", Ok(""), <<>>)
    /\ edits' = edits + 1
    /\ UNCHANGED <<meta, objects, tables, branches, commits, bin, nextId, clock>>
    /\ UNCHANGED <<patchVars, siteVars, proc>>

\* .garden/bin is made by hand in garden 1
MkdirBin ==
    /\ ~bin[1].exists
    /\ bin' = [bin EXCEPT ![1] = EmptyBin]
    /\ last' = Call("edit", 0, "", Ok(""), <<>>)
    /\ UNCHANGED <<wt, meta, objects, tables, branches, commits, nextId, clock, edits>>
    /\ UNCHANGED <<patchVars, siteVars, proc>>

\* .garden/web/{branch} is made by hand
MkdirWeb(branch) ==
    /\ branch \notin DOMAIN web.branch
    /\ web' = [exists |-> TRUE, branch |-> (branch :> EmptyWeb) @@ web.branch]
    /\ last' = Call("edit", 0, "", Ok(""), <<>>)
    /\ UNCHANGED <<wt, meta, objects, tables, branches, commits, bin, info, nextId, epoch,
                   clock, edits>>
    /\ UNCHANGED <<patchVars, proc>>

\* the pack of a commit is lost: removed by hand from .garden/objects
RemoveObject(id) ==
    /\ edits < MaxEdits
    /\ id \in DOMAIN objects \ {"blank"}
    /\ objects' = [i \in DOMAIN objects \ {id} |-> objects[i]]
    /\ last' = Call("edit", 0, "", Ok(""), <<>>)
    /\ edits' = edits + 1
    /\ UNCHANGED <<wt, meta, tables, branches, commits, bin, nextId, clock>>
    /\ UNCHANGED <<patchVars, siteVars, proc>>

\* the export tree of garden 1 is carried into garden 2
Unpack ==
    /\ bin[1].exists
    /\ bin[2] # bin[1]
    /\ bin' = [bin EXCEPT ![2] = bin[1]]
    /\ last' = Call("edit", 0, "", Ok(""), <<>>)
    /\ UNCHANGED <<wt, meta, objects, tables, branches, commits, nextId, clock, edits>>
    /\ UNCHANGED <<patchVars, siteVars, proc>>

\* Spec: the commands of garden 1 that act on the working tree, the stage and
\* the commits
Next ==
    \/ \E p \in TreePaths, c \in Contents : WriteFile(p, c)
    \/ \E p \in TreePaths : RemovePath(p)
    \/ InitGarden(1)
    \/ \E file \in StagedPaths : StageAdd(file)
    \/ \E globs \in GlobSets : StageAddGlob(globs)
    \/ StageClear
    \/ CreateCommit("main")

Spec == Init /\ [][Next]_vars

\* SpecStore: the metadata stores of both gardens: branches, commits of the
\* stage as it is, export of garden 1, import into garden 2, lookups
NextStore ==
    \/ \E g \in Gardens : InitGarden(g)
    \/ \E name \in BranchNames : CreateBranch(name)
    \/ \E branch \in BranchNames : CreateCommit(branch)
    \/ StageClear
    \/ MkdirBin
    \/ Unpack
    \/ Serialize(1)
    \/ \E src \in Gardens : Deserialize(2, src)
    \/ \E id \in LookupKeys : GetBranch(id)
    \/ \E name \in LookupKeys : GetBranchByName(name)
    \/ \E id \in LookupKeys : GetCommit(id)

SpecStore == Init /\ [][NextStore]_vars

\* SpecRows: garden 1 under every operation that the rows of its tables have
\* to outlast
NextRows ==
    \/ InitGarden(1)
    \/ \E name \in BranchNames : CreateBranch(name)
    \/ \E name \in BranchNames : SetBranch(name)
    \/ \E url \in Remotes : SetRemote(url)
    \/ \E file \in StagedPaths : StageAdd(file)
    \/ \E globs \in GlobSets : StageAddGlob(globs)
    \/ StageClear
    \/ CreateCommit("main")
    \/ MkdirWeb("main")
    \/ Render("main")
    \/ MkdirBin
    \/ Serialize(1)

SpecRows == Init /\ [][NextRows]_vars

\* SpecInfo: garden 1 with its info file, its branches and its commits
NextInfo ==
    \/ InitGarden(1)
    \/ \E name \in BranchNames : CreateBranch(name)
    \/ \E name \in BranchNames : SetBranch(name)
    \/ \E url \in Remotes : SetRemote(url)
    \/ \E file \in StagedPaths : StageAdd(file)
    \/ StageClear
    \/ CreateCommit("main")

SpecInfo == Init /\ [][NextInfo]_vars

\* SpecCheckout: the branches of garden 1 under the command checkout
NextCheckout ==
    \/ InitGarden(1)
    \/ \E name \in BranchNames : CreateBranch(name)
    \/ \E name \in BranchNames : Checkout(name)

SpecCheckout == Init /\ [][NextCheckout]_vars

\* SpecProcs: two processes, each with the commands add and commit, on a
\* working tree that holds both their files
InitProcs ==
    /\ pPc = "off" /\ pOld = <<>> /\ pNew = <<>> /\ pPatch = <<<<>>, <<>>>>
    /\ pApplied = Panicked /\ pSummary = <<0, 0, 0>> /\ pRows = Panicked
    /\ wt = [p \in TreePaths |->
                IF p \in {"a.txt", "dir/b.txt"} THEN FileEntry(<<"x", NL, "y">>)
                ELSE IF p = "dir" THEN DirEntry ELSE NoEntry]
    /\ edits = 0
    /\ meta = [f \in {"stagefile", "localfile"} |-> EmptyFile]
    /\ objects = ("blank" :> <<>>)
    /\ tables = [g \in Gardens |-> FALSE]
    /\ branches = [g \in Gardens |-> EmptyBag]
    /\ commits = [g \in Gardens |-> EmptyBag]
    /\ bin = [g \in Gardens |-> NoBin]
    /\ info = DefaultInfo
    /\ web = NoWeb
    /\ nextId = 0
    /\ epoch = 1
    /\ clock = epoch
    /\ proc = [p \in Procs |-> Idle]
    /\ last = NoCall

NextProcs ==
    \/ InitGarden(1)
    \/ \E p \in Procs : ProcAdd(p)
    \/ \E p \in Procs : ProcDiff(p)
    \/ \E p \in Procs : ProcLocalAdd(p)
    \/ \E p \in Procs : ProcPack(p)
    \/ \E p \in Procs : ProcInsert(p)
    \/ \E p \in Procs : ProcClear(p)
    \/ \E p \in Procs : Interrupt(p)

SpecProcs == InitProcs /\ [][NextProcs]_vars

\* SpecBase: commits to both branches of a repository that was initialized
\* in an earlier run, with a clock that gains a digit
InitBase ==
    /\ pPc = "off" /\ pOld = <<>> /\ pNew = <<>> /\ pPatch = <<<<>>, <<>>>>
    /\ pApplied = Panicked /\ pSummary = <<0, 0, 0>> /\ pRows = Panicked
    /\ wt = [p \in TreePaths |-> IF p = "a.txt" THEN FileEntry(<<"x", NL, "y">>) ELSE NoEntry]
    /\ edits = 0
    /\ meta = [f \in {"stagefile", "localfile"} |-> EmptyFile]
    /\ objects = ("blank" :> <<>>)
    /\ epoch = 9
    /\ clock = epoch
    /\ tables = [g \in Gardens |-> g = 1]
    /\ branches = [g \in Gardens |->
                     IF g = 1 THEN SetToBag({BranchRow("id0", "main", epoch)}) ELSE EmptyBag]
    /\ commits = [g \in Gardens |-> EmptyBag]
    /\ bin = [g \in Gardens |-> NoBin]
    /\ info = DefaultInfo
    /\ web = NoWeb
    /\ nextId = 0
    /\ proc = [p \in Procs |-> Idle]
    /\ last = NoCall

NextBase ==
    \/ \E p \in TreePaths, c \in Contents : WriteFile(p, c)
    \/ \E file \in StagedPaths : StageAdd(file)
    \/ StageClear
    \/ \E branch \in BranchNames : CreateCommit(branch)

SpecBase == InitBase /\ [][NextBase]_vars

\* SpecCommit: the stage under the commands add, clear and commit
NextCommit ==
    \/ InitGarden(1)
    \/ \E file \in StagedPaths : StageAdd(file)
    \/ StageClear
    \/ \E branch \in BranchNames : Commit(branch)

SpecCommit == Init /\ [][NextCommit]_vars

\* SpecSite: garden 1 with its commits, its objects and its static site
NextSite ==
    \/ InitGarden(1)
    \/ StageClear
    \/ \E branch \in BranchNames : CreateCommit(branch)
    \/ \E id \in DOMAIN objects : RemoveObject(id)
    \/ \E branch \in BranchNames : MkdirWeb(branch)
    \/ \E branch \in BranchNames : Render(branch)

SpecSite == Init /\ [][NextSite]_vars

\* SpecStage: the stage under Stage::add and Stage::clear alone
NextStage ==
    \/ \E file \in TreePaths : Add(file)
    \/ Clear

SpecStage == Init /\ [][NextStage]_vars

\* the working trees Stage::add_glob is run on: every file has its directory
Trees ==
    {t \in [TreePaths -> {NoEntry, DirEntry} \cup {FileEntry(c) : c \in Contents}] :
        \A p \in TreePaths :
            IF ChildrenOf(p) # {} THEN t[p].kind # "file"
            ELSE /\ t[p].kind # "dir"
                 /\ t[p].kind = "file" => (p = "a.txt" \/ t[p].content # <<>>)
                 /\ (t[p].kind = "file" /\ ParentOf(p) # "") => t[ParentOf(p)].kind = "dir"}

\* SpecGlob: Stage::add_glob on every working tree and every ignore list
InitGlob ==
    /\ pPc = "off" /\ pOld = <<>> /\ pNew = <<>> /\ pPatch = <<<<>>, <<>>>>
    /\ pApplied = Panicked /\ pSummary = <<0, 0, 0>> /\ pRows = Panicked
    /\ wt \in Trees
    /\ edits = 0
    /\ meta = [f \in {"stagefile", "localfile"} |-> EmptyFile]
    /\ objects = ("blank" :> <<>>)
    /\ tables = [g \in Gardens |-> FALSE]
    /\ branches = [g \in Gardens |-> EmptyBag]
    /\ commits = [g \in Gardens |-> EmptyBag]
    /\ bin = [g \in Gardens |-> NoBin]
    /\ info = DefaultInfo
    /\ web = NoWeb
    /\ nextId = 0
    /\ epoch = 1
    /\ clock = epoch
    /\ proc = [p \in Procs |-> Idle]
    /\ last = NoCall

NextGlob == \E ignore_globs \in IgnoreLists : AddGlob(ignore_globs)

SpecGlob == InitGlob /\ [][NextGlob]_vars

\* SpecQuery: the rows of garden 1 and the queries that order them, from a
\* clock whose readings go from one digit to two
InitQuery ==
    /\ pPc = "off" /\ pOld = <<>> /\ pNew = <<>> /\ pPatch = <<<<>>, <<>>>>
    /\ pApplied = Panicked /\ pSummary = <<0, 0, 0>> /\ pRows = Panicked
    /\ wt = [p \in TreePaths |-> IF p = "a.txt" THEN FileEntry(<<"x", NL, "y">>) ELSE NoEntry]
    /\ edits = 0
    /\ meta = [f \in {"stagefile", "localfile"} |-> EmptyFile]
    /\ objects = ("blank" :> <<>>)
    /\ tables = [g \in Gardens |-> FALSE]
    /\ branches = [g \in Gardens |-> EmptyBag]
    /\ commits = [g \in Gardens |-> EmptyBag]
    /\ bin = [g \in Gardens |-> NoBin]
    /\ info = DefaultInfo
    /\ web = NoWeb
    /\ nextId = 0
    /\ epoch = 9
    /\ clock = epoch
    /\ proc = [p \in Procs |-> Idle]
    /\ last = NoCall

NextQuery ==
    \/ InitGarden(1)
    \/ \E name \in BranchNames : CreateBranch(name)
    \/ StageClear
    \/ \E branch \in BranchNames : CreateCommit(branch)
    \/ GetAllBranches
    \/ \E branch \in BranchNames : GetAllCommits(branch)
    \/ GetLatestCommit

SpecQuery == InitQuery /\ [][NextQuery]_vars

----------------------------------------------------------------------------
(* SpecPatch: Patch::from_file and PatchFile::apply on every pair of texts *)

InitPatch ==
    /\ pPc = "start" /\ pOld \in Texts /\ pNew \in Texts
    /\ pPatch = <<<<>>, <<>>>> /\ pApplied = Panicked /\ pSummary = <<0, 0, 0>> /\ pRows = Panicked
    /\ wt = [p \in TreePaths |-> NoEntry]
    /\ edits = 0
    /\ meta = [f \in {"stagefile", "localfile"} |-> EmptyFile]
    /\ objects = ("blank" :> <<>>)
    /\ tables = [g \in Gardens |-> FALSE]
    /\ branches = [g \in Gardens |-> EmptyBag]
    /\ commits = [g \in Gardens |-> EmptyBag]
    /\ bin = [g \in Gardens |-> NoBin]
    /\ info = DefaultInfo
    /\ web = NoWeb
    /\ nextId = 0
    /\ epoch = 1
    /\ clock = epoch
    /\ proc = [p \in Procs |-> Idle]
    /\ last = NoCall

\* the command fdiff: the diff, and the summary its rendering prints
FromFile ==
    /\ pPc = "start"
    /\ pPatch' \in from_file(pOld, pNew)
    /\ pSummary' = summary(pPatch')
    /\ pRows' = render(pPatch')
    /\ pPc' = "diffed"
    /\ UNCHANGED <<pOld, pNew, pApplied>>
    /\ UNCHANGED gardenVars

Apply ==
    /\ pPc = "diffed"
    /\ pApplied' = apply(pPatch, pOld)
    /\ pPc' = "applied"
    /\ UNCHANGED <<pOld, pNew, pPatch, pSummary, pRows>>
    /\ UNCHANGED gardenVars

NextPatch == FromFile \/ Apply

SpecPatch == InitPatch /\ [][NextPatch]_vars

-----------------------------------------------------------------------------
(* Claims *)

\* C1: Diff/apply round-trip: for every pair of texts (old, new), applying the
\* PatchFile that Patch::from_file produced for (old, new) to old with
\* PatchFile::apply returns exactly new.
C1_RoundTrip == pPc = "applied" => pApplied = Returned(pNew)

\* the Patch stored in the commit row of garden 1 with the given id
StoredPatch(id) ==
    CommitOf(CHOOSE r \in BagToSet(commits[1]) : r.id = id).content

\* the Pack in the object directory under the given id, opened
StoredPack(id) == PackFromFile(objects[id])

\* the last operation was a create_commit that returned Ok(id)
Committed == last.op = "create_commit" /\ last.ret.ok

\* the snapshots a create_commit returning id may take as the previous one:
\* the packs of the commit rows, other than its own, of greatest timestamp,
\* and the blank pack when there is no such row
PreviousSnapshots(id) ==
    LET rows == {r \in BagToSet(commits[1]) : r.id # id}
        latest == {r \in rows : \A q \in rows : parse(q.timestamp) <= parse(r.timestamp)}
    IN IF rows = {} THEN {PackFromFile(objects["blank"])}
       ELSE {PackFromFile(objects[r.id]) : r \in latest}

\* what a snapshot of the staged paths holds: every staged path that is on
\* disk and every path under a staged directory, a file with its content on
\* disk and a directory with the empty content
ExpectedSnapshot(tree, files) ==
    LET paths == {p \in TreePaths : /\ tree[p].kind # "none"
                                     /\ (p \in Range(files) \/ ParentOf(p) \in Range(files))}
    IN [p \in paths |-> tree[p].content]

\* C2: Snapshot fidelity: after every create_commit that returned Ok(id), the
\* Pack stored under id, opened, holds exactly the staged files, each with its
\* content on disk, and for every staged directory an entry of empty content
\* for the directory and every file under it with its content on disk; a path
\* that is neither staged nor under a staged directory is not in the Pack.
C2_SnapshotFidelity ==
    Committed =>
        LET pack == StoredPack(last.ret.val)
            want == ExpectedSnapshot(wt, last.before.stage)
        IN /\ DOMAIN pack = DOMAIN want
           /\ \A p \in DOMAIN want : pack[p] = want[p]

\* a commit was stored with a directory on the stage
C2_Witness ==
    /\ Committed
    /\ \E p \in Range(last.before.stage) : wt[p].kind = "dir"
    /\ \E p \in TreePaths : wt[p].kind = "file" /\ p \notin Range(last.before.stage)

\* C2 as stated: the Pack stored under id holds exactly the set of staged
\* paths, each with its content on disk.
C2_ExactlyTheStaged ==
    Committed =>
        /\ DOMAIN StoredPack(last.ret.val) = Range(last.before.stage)
        /\ \A p \in Range(last.before.stage) : StoredPack(last.ret.val)[p] = wt[p].content

\* the PatchFile that deletes every line of a file: one Deleted change per
\* line, in order, each with the line's index
FullDeletion(old) ==
    PatchFile(old, [k \in 1..Len(Lines(old)) |-> <<k - 1, Deleted, Lines(old)[k]>>])

C4_NoOpSuppression ==
    \A r \in BagToSet(commits[1]) :
        \A p \in DOMAIN CommitOf(r).content : Len(CommitOf(r).content[p][2]) >= 1

\* C8: a create_commit that did not return Ok leaves Stage.get_files() and
\* Local.get_files() as they were before the call.
C8_FailedCommitFrame ==
    (last.op = "create_commit" /\ ~last.ret.ok) =>
        /\ get_files(meta, StageFile) = last.before.stage
        /\ LocalStage_get_files(meta, LocalFile) = last.before.local

\* C9: after a create_commit that returned Ok(id), Local.get_files() is the
\* list of before the call followed by id, and Stage.get_files() is the list
\* of before the call.
C9_SuccessfulCommitFrame ==
    Committed =>
        /\ LocalStage_get_files(meta, LocalFile) = Append(last.before.local, last.ret.val)
        /\ get_files(meta, StageFile) = last.before.stage

\* the ids of the rows of a table, and whether no two rows share one
RowIds(B) == {r.id : r \in BagToSet(B)}
UniqueIds(B) == BagCardinality(B) = Cardinality(RowIds(B))

\* the last operation was deserialize into garden 2, which was then a store
\* with its tables, the one branch of its init and no commit, of an export
\* tree that serialize wrote
ImportedIntoFresh ==
    /\ last.op = "deserialize"
    /\ tables[2]
    /\ last.before.c = EmptyBag
    /\ BagCardinality(last.before.b) = 1
    /\ bin[IF last.before.own THEN 2 ELSE 1].exported

\* the rows of garden 1 when the imported tree was exported
Exported == bin[IF last.before.own THEN 2 ELSE 1].of

\* C5: Export/import round-trip: serialize of garden 1 and then deserialize of
\* the export tree into a store that has only its tables and its init's branch
\* completes and leaves that store with the branch rows and the commit rows
\* garden 1 had at the export, each once, next to the row it had itself.
C5_ExportImportRoundTrip ==
    ImportedIntoFresh =>
        /\ last.ret.ok
        /\ branches[2] = last.before.b (+) Exported.b
        /\ commits[2] = Exported.c

\* C6: deserialize rejects duplicate ids: after deserialize, no two branch
\* rows of the store have the same id and no two commit rows have the same id.
C6_NoDuplicateIds ==
    last.op = "deserialize" => UniqueIds(branches[2]) /\ UniqueIds(commits[2])

\* C7: init is idempotent: after init was called one or more times on a
\* garden and nothing else was, get_all_branches() returns exactly one
\* branch, named main.
C7_InitIdempotent ==
    (last.op = "init" /\ last.only_init) =>
        \A ret \in get_all_branches(last.g) :
            ret.ok /\ Len(ret.val) = 1 /\ ret.val[1].name = "main"

\* the last operation was a lookup in the tables of garden 1 and no row
\* matches its key
LookupFoundNothing ==
    /\ tables[1]
    /\ \/ last.op = "get_branch" /\ last.arg \notin RowIds(branches[1])
       \/ last.op = "get_branch_by_name"
            /\ last.arg \notin {r.name : r \in BagToSet(branches[1])}
       \/ last.op = "get_commit" /\ to_lowercase(last.arg) \notin RowIds(commits[1])

\* C10: a lookup (get_branch, get_branch_by_name, get_commit) whose key no
\* row matches returns Err(NotFound).
C10_LookupNotFound == LookupFoundNothing => last.ret = Err("NotFound")

\* the PatchFile of a file that was not there before: the empty previous
\* content and one Added change per line, in order, each with the line's index
FullAddition(new) ==
    PatchFile(<<>>, [k \in 1..Len(Lines(new)) |-> <<k - 1, Added, Lines(new)[k]>>])

\* the last operation was a create_commit on a store that has its tables and
\* no commit row: get_latest_commit found nothing
FirstCommit == last.op = "create_commit" /\ tables[1] /\ ~last.before.latest.ok

\* C12: First commit: create_commit on a repository with no commit takes the
\* empty blank pack as the diff base and, with every staged path on disk,
\* returns Ok; the Patch it stores has for every staged file that is not empty
\* one PatchFile with the empty previous content and only Added changes, one
\* per line of the file.
C12_FirstCommit ==
    FirstCommit =>
        /\ last.before.base = PackFromFile(objects["blank"])
        /\ DOMAIN last.before.base = {}
        /\ (\A p \in Range(last.before.stage) : fstat(wt, p).kind # "none") => last.ret.ok
        /\ last.ret.ok =>
              \A p \in Range(last.before.stage) :
                  (fstat(wt, p).kind = "file" /\ wt[p].content # <<>>) =>
                      /\ p \in DOMAIN StoredPatch(last.ret.val)
                      /\ StoredPatch(last.ret.val)[p] = FullAddition(wt[p].content)
                      /\ summary(StoredPatch(last.ret.val)[p])[2] = Len(Lines(wt[p].content))

\* the first commit was stored with a file of two lines on the stage
C12_Witness ==
    /\ FirstCommit /\ last.ret.ok
    /\ \E p \in Range(last.before.stage) :
          fstat(wt, p).kind = "file" /\ Len(Lines(wt[p].content)) = 2

\* C11: Branch rows and commit rows are permanent and immutable: every step of
\* init, create_branch, set_branch, set_remote, create_commit, the Stage
\* commands, render and serialize leaves every row of both tables in its
\* table, as many times as it was there and with the same field values.
C11_RowsPermanent ==
    [][\A g \in Gardens : /\ branches[g] \sqsubseteq branches'[g]
                          /\ commits[g] \sqsubseteq commits'[g]]_vars

\* a render and a serialize have completed over a store that holds a commit
\* row and two branch rows
C11_Witness ==
    /\ last.op = "serialize" /\ last.ret.ok
    /\ "main" \in DOMAIN web.branch /\ web.branch["main"].done
    /\ BagCardinality(commits[1]) >= 1
    /\ BagCardinality(branches[1]) >= 2

\* how often a value is in a sequence
Occurrences(q, x) == Cardinality({k \in 1..Len(q) : q[k] = x})

\* the timestamps of a sequence of branches or commits never grow
NewestFirst(q) == \A i \in 1..Len(q) : \A j \in i..Len(q) : q[i].timestamp >= q[j].timestamp

\* C13: get_all_commits(branch) returns exactly the commit rows of that
\* branch, each once, newest first by the number of the timestamp;
\* get_latest_commit returns a commit whose timestamp is at least that of
\* every commit row; get_all_branches returns all branch rows, newest first.
C13_QueryOrder ==
    /\ (last.op = "get_all_commits" /\ tables[1]) =>
          /\ last.ret.ok
          /\ \A r \in BagToSet(commits[1]) :
                Occurrences(last.ret.val, CommitOf(r)) =
                    IF r.branch = last.arg THEN CopiesIn(r, commits[1]) ELSE 0
          /\ \A k \in 1..Len(last.ret.val) : last.ret.val[k].branch = last.arg
          /\ NewestFirst(last.ret.val)
    /\ (last.op = "get_latest_commit" /\ last.ret.ok) =>
          \A r \in BagToSet(commits[1]) : parse(r.timestamp) <= last.ret.val.timestamp
    /\ (last.op = "get_all_branches" /\ tables[1]) =>
          /\ last.ret.ok
          /\ \A r \in BagToSet(branches[1]) :
                Occurrences(last.ret.val, BranchOf(r)) = CopiesIn(r, branches[1])
          /\ Len(last.ret.val) = BagCardinality(branches[1])
          /\ NewestFirst(last.ret.val)

\* C14: set_branch(name) changes only info.branch.current and set_remote(url)
\* changes only info.remote: the other fields of the info, the rows of both
\* tables, the Stage and the Local list are as they were before the call;
\* set_branch inserts no branch row, also when no branch is named name.
C14_InfoFrame ==
    /\ last.op = "set_branch" =>
          /\ info = [last.before.info EXCEPT !.branch.current = last.arg]
          /\ Snapshot = [last.before EXCEPT !.info = info]
    /\ last.op = "set_remote" =>
          /\ info = [last.before.info EXCEPT !.remote = last.arg]
          /\ Snapshot = [last.before EXCEPT !.info = info]

\* set_branch was called with a name no branch row has, over a store that
\* holds a branch row and a commit row, with a remote set and a path staged
C14_Witness ==
    /\ last.op = "set_branch"
    /\ last.arg \notin {r.name : r \in BagToSet(branches[1])}
    /\ last.before.info.branch.current # last.arg
    /\ last.before.info.remote # ""
    /\ branches[1] # EmptyBag /\ commits[1] # EmptyBag
    /\ get_files(meta, StageFile) # <<>>

\* C15: Stage, for any sequence of add and clear: get_files() returns the
\* entries that are not empty, in append order: after add(p) it is the list
\* of before the call followed by p, after clear() it is empty.
C15_StageList ==
    /\ \A k \in 1..Len(get_files(meta, StageFile)) : get_files(meta, StageFile)[k] # ""
    /\ last.op = "add" => get_files(meta, StageFile) = Append(last.before.stage, last.arg)
    /\ last.op = "clear" => get_files(meta, StageFile) = <<>>
    /\ last.op = "none" => get_files(meta, StageFile) = <<>>

\* add was called on a stage that held two different entries
C15_Witness ==
    /\ last.op = "add"
    /\ Len(last.before.stage) = 2
    /\ last.before.stage[1] # last.before.stage[2]

\* C17: Diff edge cases never fail: Patch::from_file returns a Patch for every
\* pair of texts, with the one PatchFile of the path; for empty against empty
\* that PatchFile has the empty previous content and no change; for empty
\* against non-empty it has only Added changes, one per line of the new text;
\* for non-empty against empty only Deleted changes, one per line of the old.
C17_DiffEdgeCases ==
    /\ from_file(pOld, pNew) # {}
    /\ pPc # "start" =>
         LET patch == PatchOf(FDiffPath, pPatch)
             pf == patch[FDiffPath]
         IN /\ DOMAIN patch = {FDiffPath}
            /\ (pOld = <<>> /\ pNew = <<>>) => pf = PatchFile(<<>>, <<>>)
            /\ (pOld = <<>> /\ pNew # <<>>) =>
                  /\ Len(pf[2]) = Len(Lines(pNew))
                  /\ \A k \in 1..Len(pf[2]) : pf[2][k][2] = Added /\ pf[2][k][3] = Lines(pNew)[k]
            /\ (pOld # <<>> /\ pNew = <<>>) =>
                  /\ Len(pf[2]) = Len(Lines(pOld))
                  /\ \A k \in 1..Len(pf[2]) : pf[2][k][2] = Deleted /\ pf[2][k][3] = Lines(pOld)[k]

\* the empty text was diffed against a text of two lines
C17_Witness == pPc = "diffed" /\ pOld = <<>> /\ Len(Lines(pNew)) = 2

\* C17 as stated: the Patch of empty against empty is empty, it holds no
\* PatchFile; the other two cases as above.
C17_EmptyPatch ==
    pPc # "start" =>
        LET patch == PatchOf(FDiffPath, pPatch)
        IN /\ (pOld = <<>> /\ pNew = <<>>) => DOMAIN patch = {}
           /\ (pOld = <<>> /\ pNew # <<>>) =>
                 \A k \in 1..Len(pPatch[2]) : pPatch[2][k][2] = Added
           /\ (pOld # <<>> /\ pNew = <<>>) =>
                 \A k \in 1..Len(pPatch[2]) : pPatch[2][k][2] = Deleted

\* C18: Summary additivity: for every PatchFile, summary() returns (total,
\* additions, deletions) with total = additions + deletions, additions the
\* number of Added changes and deletions the number of Deleted changes.
C18_SummaryAdditive ==
    pPc # "start" =>
        /\ pSummary[1] = pSummary[2] + pSummary[3]
        /\ pSummary[2] = Cardinality({k \in 1..Len(pPatch[2]) : pPatch[2][k][2] = Added})
        /\ pSummary[3] = Cardinality({k \in 1..Len(pPatch[2]) : pPatch[2][k][2] = Deleted})

\* the summary of a PatchFile that holds an addition and a deletion
C18_Witness == pPc = "diffed" /\ pSummary[2] >= 1 /\ pSummary[3] >= 1

\* the ids of the commit rows of a branch in garden 1
CommitIdsOf(branch) == {r.id : r \in {c \in BagToSet(commits[1]) : c.branch = branch}}

\* C19: Garden.render(branch), in any state of an initialized repository, also
\* one where the branch was never rendered before, completes and writes a
\* commits index with exactly one entry per commit of the branch, newest
\* first, and per commit a tree page that lists exactly the files of that
\* commit's Pack.
C19_Render ==
    (last.op = "render" /\ tables[1]) =>
        /\ last.ret.ok
        /\ last.arg \in DOMAIN web.branch
        /\ LET site == web.branch[last.arg]
               rows == {c \in BagToSet(commits[1]) : c.branch = last.arg}
           IN /\ site.done
              /\ \A r \in rows : Occurrences(site.index, r.id) = CopiesIn(r, commits[1])
              /\ Len(site.index) = BagCardinality([r \in rows |-> CopiesIn(r, commits[1])])
              /\ \A i \in 1..Len(site.index) : \A j \in i..Len(site.index) :
                    \A ri, rj \in rows :
                        (ri.id = site.index[i] /\ rj.id = site.index[j]) => ri.timestamp >= rj.timestamp
              /\ \A r \in rows : r.id \in DOMAIN objects =>
                    site.tree[r.id] = DOMAIN PackFromFile(objects[r.id])

\* C20: Opening a missing Pack is a hard error to the caller everywhere except
\* in create_commit's lookup of the diff base when no commit exists: the blank
\* pack stands in for a commit's Pack only when the store has no commits.
C20_BlankOnlyWithoutCommits ==
    /\ (last.op = "create_commit" /\ last.before.blank) => ~last.before.latest.ok
    /\ (last.op = "render" /\ tables[1] /\ CommitIdsOf(last.arg) \ DOMAIN objects # {})
          => ~last.ret.ok

\* C21: The command checkout(name) on an initialized repository creates a new
\* branch and switches to it, or switches to an existing branch: afterwards
\* info.branch.current = name and a branch row named name exists; when a
\* branch named name existed before, no branch row is added, and otherwise
\* exactly one row, named name, is.
C21_Checkout ==
    (last.op = "checkout" /\ tables[1]) =>
        /\ last.ret.ok
        /\ info = [last.before.info EXCEPT !.branch.current = last.arg]
        /\ \E r \in BagToSet(branches[1]) : r.name = last.arg
        /\ IF \E r \in BagToSet(last.before.b) : r.name = last.arg
           THEN branches[1] = last.before.b
           ELSE \E r \in BagToSet(branches[1]) :
                  /\ r.name = last.arg
                  /\ branches[1] = last.before.b (+) SetToBag({r})
        /\ commits[1] = last.before.c

\* checkout was given the name of a branch that exists, after a checkout that
\* had created it
C21_Witness ==
    /\ last.op = "checkout" /\ tables[1]
    /\ last.arg = "dev"
    /\ last.before.info.branch.current = "dev"
    /\ \E r \in BagToSet(last.before.b) : r.name = "dev"

\* C22: Pack before row: in every reachable state, also where create_commit
\* was interrupted between two of its steps, every commit row has a Pack
\* object with its id in the object directory, and the only inconsistency an
\* interruption leaves is a Pack object without a commit row: an id that an
\* interrupted create_commit left in the Local list has its Pack.
C22_PackBeforeRow ==
    /\ \A r \in BagToSet(commits[1]) : r.id \in DOMAIN objects
    /\ \A p \in Procs :
          (proc[p].pc = "interrupted"
              /\ proc[p].id \in Range(LocalStage_get_files(meta, LocalFile)))
          => proc[p].id \in DOMAIN objects

\* the path process p staged was on the stage when another process cleared
\* it, and the snapshot Pack of no commit holds it
Lost(p) ==
    /\ \E q \in Procs \ {p} : PathOf(p) \in proc[q].cleared
    /\ \A r \in BagToSet(commits[1]) : PathOf(p) \notin DOMAIN PackFromFile(get_object(r.id))

\* C27: Concurrent invocations against one repository are not safe: with two
\* processes that each run add, create_commit and clear there is a reachable
\* interleaving in which a path one process staged is removed by the other's
\* clear without being in the snapshot Pack of any commit (C27_Witness). It happens
\* only so: the process that cleared the path had read the stage, at the start
\* of its create_commit, before the path was added.
C27_LostByStaleRead ==
    \A p \in Procs :
        Lost(p) => \E q \in Procs \ {p} :
                      /\ PathOf(p) \in proc[q].cleared
                      /\ PathOf(p) \notin Range(proc[q].files)

\* both processes have finished their commands with Ok, and the path of one
\* was cleared by the other and is in no Pack
C27_Witness ==
    /\ \A q \in Procs : proc[q].pc = "done"
    /\ \E p \in Procs : Lost(p)

\* C23: Diff base: after every create_commit(branch) that stored a commit,
\* every staged path that has a PatchFile in the stored Patch has as its
\* previous content its content in the Pack of the commit of greatest
\* timestamp in the whole store, whatever that commit's branch and whatever
\* the branch argument, or the empty text when the path is not in that Pack.
C23_DiffBase ==
    Committed =>
        \E snap \in PreviousSnapshots(last.ret.val) :
            \A p \in Range(last.before.stage) \cap DOMAIN StoredPatch(last.ret.val) :
                StoredPatch(last.ret.val)[p][1] = IF p \in DOMAIN snap THEN snap[p] ELSE <<>>

\* the indices (0-based) the changes of one mode carry
IndicesOf(changes, mode) == {changes[k][1] : k \in {k \in 1..Len(changes) : changes[k][2] = mode}}

\* the lines whose index (0-based) is not in gone, in their order
KeptLines(lines, gone) ==
    LET idx == {k \in 1..Len(lines) : (k - 1) \notin gone}
    IN [n \in 1..Cardinality(idx) |->
          lines[CHOOSE k \in idx : Cardinality({m \in idx : m <= k}) = n]]

\* C24: Change positions: in the PatchFile of Patch::from_file(path, old, new)
\* every Added change carries the index of its line in new and that line,
\* every Deleted change the index of its line in old and that line, no two
\* changes of one mode share an index, and the lines without a change are the
\* equal lines: the old lines that are not deleted are, in order, the new
\* lines that are not added. So the Deleted changes number the old lines less
\* the equal ones, and the Added changes the new lines less the equal ones.
C24_ChangePositions ==
    pPc # "start" =>
        LET changes == pPatch[2]
            old == Lines(pOld)
            new == Lines(pNew)
            dels == IndicesOf(changes, Deleted)
            adds == IndicesOf(changes, Added)
            equal == KeptLines(old, dels)
        IN /\ \A k \in 1..Len(changes) :
                 LET c == changes[k]
                     of == IF c[2] = Added THEN new ELSE old
                 IN c[1] < Len(of) /\ of[c[1] + 1] = c[3]
           /\ CountMode(changes, Deleted) = Cardinality(dels)
           /\ CountMode(changes, Added) = Cardinality(adds)
           /\ equal = KeptLines(new, adds)
           /\ CountMode(changes, Deleted) = Len(old) - Len(equal)
           /\ CountMode(changes, Added) = Len(new) - Len(equal)

\* a diff with an equal line, and after it a deleted and an added line
C24_Witness ==
    /\ pPc = "diffed"
    /\ Len(pPatch[2]) < Len(Lines(pOld)) + Len(Lines(pNew))
    /\ \E k \in 1..Len(pPatch[2]) : pPatch[2][k][2] = Deleted /\ pPatch[2][k][1] >= 1
    /\ \E k \in 1..Len(pPatch[2]) : pPatch[2][k][2] = Added /\ pPatch[2][k][1] >= 1

\* C25: PatchFile::apply on any PatchFile and any source text returns a string
\* without crashing; here on every PatchFile Patch::from_file produced, applied
\* to the old text it was produced from.
C25_ApplyTotal == pPc = "applied" => pApplied.ok

\* the positions of the rows with the given mark and line number
RowsAt(rows, mark, number) ==
    {q \in 1..Len(rows) : rows[q] # <<>> /\ rows[q][1] = mark /\ rows[q][2] = number}

\* C26: Render tie-break: in Patch::render of every PatchFile that
\* Patch::from_file produced, an original line with a Deleted change at index
\* i is shown exactly once, marked deleted, with no unchanged row beside it,
\* and an Added change with the same index i is shown in the row immediately
\* after that deleted row.
C26_RenderTieBreak ==
    pPc # "start" =>
        /\ pRows.ok
        /\ \A i \in IndicesOf(pPatch[2], Deleted) :
              /\ Cardinality(RowsAt(pRows.val, "-", i + 1)) = 1
              /\ RowsAt(pRows.val, ".", i + 1) = {}
              /\ i \in IndicesOf(pPatch[2], Added) =>
                    \E q \in RowsAt(pRows.val, "-", i + 1) :
                        q + 1 \in RowsAt(pRows.val, "+", i + 1)

\* C28: The command commit clears the Stage if and only if create_commit
\* returned Ok: after a successful command Stage.get_files() is empty, and
\* after a failed one it returns the paths of before the command.
C28_CommitClears ==
    last.op = "commit" =>
        IF last.ret.ok THEN get_files(meta, StageFile) = <<>>
        ELSE get_files(meta, StageFile) = last.before.stage

\* C29: Referential integrity of commits: in every reachable state the branch
\* field of every commit row is the name of some branch row; create_commit
\* with a name that no branch row has inserts no commit row.
C29_CommitBranchExists ==
    \A r \in BagToSet(commits[1]) : \E b \in BagToSet(branches[1]) : b.name = r.branch

\* C30: Unchanged files stay out of the Patch: after every create_commit that
\* stored a commit, a path that has the same content in the snapshot Pack the
\* call diffed against and in the new commit's snapshot Pack is not in the
\* new commit's stored Patch, whether it was staged by its own path or came
\* in through a staged directory.
C30_UnchangedStayOut ==
    Committed =>
        LET new == StoredPack(last.ret.val)
            previous == last.before.base
        IN \A p \in DOMAIN new \cap DOMAIN previous :
              new[p] = previous[p] => p \notin DOMAIN StoredPatch(last.ret.val)

\* C16: Glob exclusion: for every list of ignore patterns, add_glob appends to
\* the Stage no path under .garden or .git and no directory; every regular
\* file of the working tree that no ignore glob matches is appended.
C16_GlobExclusion ==
    last.op = "add_glob" =>
        LET staged == Range(get_files(meta, StageFile))
        IN /\ staged \cap (GardenFiles \cup GitFiles) = {}
           /\ \A e \in staged : fstat(wt, e).kind # "dir"
           /\ \A p \in TreePaths :
                 (wt[p].kind = "file" /\ \A g \in last.arg \cup BuiltinGlobs : ~GlobMatches(g, p))
                     => p \in staged

=============================================================================
